---- MODULE Spec2Model ----
(***************************************************************************)
(* State-machine model of the todo manager: the folder hierarchy service   *)
(* (folderService + the WorkingTodoApp / FolderTree callers), the windowed *)
(* list renderer (TodoList) and the useTodos hook over the todos           *)
(* collection.  Each subsystem has its own specification over the shared   *)
(* variables; the variables of the other subsystems stay at their initial  *)
(* value.                                                                  *)
(***************************************************************************)
EXTENDS Integers, Sequences, FiniteSets, TLC

VARIABLES
    folders,           \* foldersCollection: sequence of Folder records (insertion order)
    todos,             \* todosCollection of WorkingTodoApp: sequence of Todo records
    selectedFolderId,  \* WorkingTodoApp state: the folder selected in the tree
    last,              \* the last call on the collections and how it ended
    now,               \* Date.now(), in milliseconds since the model's epoch
    \* TodoList component
    enableVirtualization, itemHeight, containerHeight,   \* props
    todoCount,         \* todos.length of the todos prop
    scrollTop,         \* containerRef.current.scrollTop
    visibleRange,      \* useState({ start, end })
    effectPending,     \* the "initialize visible range" effect is scheduled
    scrollPending,     \* the browser has a scroll event to deliver
    listLast,          \* the last thing TodoList handled
    \* useTodos hook over the todos collection of lib/db
    store,             \* todosCollection: sequence of Todo records
    hookOptions,       \* the UseTodosOptions of the current render
    hookLast,          \* the last hook call and how it ended
    sortCall,          \* the last sortTodos call: its arguments and what it returned
    \* TodoList selection
    listTodoIds,       \* the ids of the todos prop: todos.map(todo => todo.id)
    selectedIds,       \* useState<Set<string>>
    isSelectionMode,   \* useState(false)
    selectionLast,     \* the last selection handler and the selection it found
    \* TodoFilter with the filters state of its parent
    filters,           \* SimpleApp: useState<FilterOptions>({}), the filters prop
    searchValue,       \* useState(filters.searchTerm || '')
    searchTimeout,     \* searchTimeoutRef: the pending timer and what its callback closes over
    changedWhilePending, \* the filter fields changed since the pending timer was set
    filterLast         \* the last TodoFilter handler or callback that ran

fvars == <<folders, todos, selectedFolderId, last>>

lvars == <<enableVirtualization, itemHeight, containerHeight, todoCount, scrollTop,
           visibleRange, effectPending, scrollPending, listLast>>

hvars == <<store, hookOptions, hookLast, sortCall>>

svars == <<listTodoIds, selectedIds, isSelectionMode, selectionLast>>

dvars == <<filters, searchValue, searchTimeout, changedWhilePending, filterLast>>

vars == <<fvars, now, lvars, hvars, svars, dvars>>

\* ------------------------------------------------------------------ bounds

\* The clock runs from 1 to MaxTime.  Folder and todo ids are made from the
\* clock, so MaxTime also bounds the number of folders.
MaxTime == 2

\* The number of todos WorkingTodoApp adds.
MaxTodos == 1

\* ------------------------------------------------------------- identifiers

null == "null"

root == "root"

\* id: `folder-${Date.now()}`
FolderId(t) == "folder-" \o ToString(t)

\* id: Date.now().toString()
TodoId(t) == ToString(t)

\* Every string a caller can pass as a folder id that either names a folder
\* of some reachable store or names none yet.
FolderIds == {root} \cup {FolderId(t) : t \in 1..MaxTime}

\* ------------------------------------------------ collection (SignalDB) helpers

Range(s) == {s[i] : i \in 1..Len(s)}

Ids(coll) == {x.id : x \in Range(coll)}

\* collection.findOne({ id }) finds an item (the result is not null)
Has(coll, id) == \E i \in 1..Len(coll) : coll[i].id = id

\* collection.findOne({ id }): the first item with that id
FindOne(coll, id) ==
    coll[CHOOSE i \in 1..Len(coll) :
            /\ coll[i].id = id
            /\ \A j \in 1..(i - 1) : coll[j].id # id]

\* collection.insert(item) accepting an item whatever its id
CanInsertAlways(coll, item) == TRUE

\* collection.insert(item): SignalDB refuses an item whose id is already in
\* the collection (it throws and the collection is unchanged)
CanInsert(coll, item) == ~Has(coll, item.id)

Insert(coll, item) == Append(coll, item)

\* foldersCollection.find({ parentId }).fetch().map(f => f.id)
ChildIds(fs, parentId) ==
    LET kids == SelectSeq(fs, LAMBDA f : f.parentId = parentId)
    IN  [i \in 1..Len(kids) |-> kids[i].id]

\* collection.removeOne({ id }): removes the first item with that id
RemoveOne(coll, id) ==
    IF \E i \in 1..Len(coll) : coll[i].id = id
    THEN LET k == CHOOSE i \in 1..Len(coll) :
                    /\ coll[i].id = id
                    /\ \A j \in 1..(i - 1) : coll[j].id # id
         IN  SubSeq(coll, 1, k - 1) \o SubSeq(coll, k + 1, Len(coll))
    ELSE coll

\* removeMany with the selector dropped: every todo is removed
RemoveManyEvery(ts, folderId) == <<>>

\* todosCollection.removeMany({ folderId })
RemoveManyByFolder(ts, folderId) == SelectSeq(ts, LAMBDA t : t.folderId # folderId)

\* collection.updateOne({ id }, { $set: patch }) for the parentId field
SetParent(fs, id, parentId) ==
    IF \E i \in 1..Len(fs) : fs[i].id = id
    THEN LET k == CHOOSE i \in 1..Len(fs) :
                    /\ fs[i].id = id
                    /\ \A j \in 1..(i - 1) : fs[j].id # id
         IN  [fs EXCEPT ![k].parentId = parentId]
    ELSE fs

RECURSIVE Concat(_)
Concat(ss) == IF ss = <<>> THEN <<>> ELSE Head(ss) \o Concat(Tail(ss))

\* ------------------------------------------------------------ folderService

\* getAllChildFolders(parentId): the children of parentId followed by the
\* result of the recursive call on each child.  `path` holds the folders the
\* recursion is inside of; meeting one of them again means the JavaScript
\* recursion never returns and ends in "RangeError: Maximum call stack size
\* exceeded" (ok = FALSE).
RECURSIVE getAllChildFolders(_, _, _)
getAllChildFolders(fs, parentId, path) ==
    IF parentId \in path
    THEN [ok |-> FALSE, ids |-> <<>>]
    ELSE LET childFolders == ChildIds(fs, parentId)
             subs == [i \in 1..Len(childFolders) |->
                        getAllChildFolders(fs, childFolders[i], path \cup {parentId})]
         IN  IF \E i \in 1..Len(childFolders) : ~subs[i].ok
             THEN [ok |-> FALSE, ids |-> <<>>]
             ELSE [ok |-> TRUE,
                   ids |-> childFolders \o
                           Concat([i \in 1..Len(childFolders) |-> subs[i].ids])]

\* Mutant of folderIdsToDelete: the child folders are left out.
folderIdsToDeleteNoChildren(fs, id) == [ok |-> TRUE, ids |-> <<id>>]

\* const folderIdsToDelete = [id, ...getAllChildFolders(id)]
folderIdsToDelete(fs, id) ==
    LET r == getAllChildFolders(fs, id, {})
    IN  [ok |-> r.ok, ids |-> <<id>> \o r.ids]

\* isDescendant(parentId, checkId) of moveFolder: walks the parent pointers
\* upward from parentId.  `seen` holds the folders already visited; visiting
\* one again means the recursion never returns (stack overflow).
RECURSIVE isDescendant(_, _, _, _)
isDescendant(fs, parentId, checkId, seen) ==
    IF parentId = checkId THEN "true"
    ELSE IF parentId \in seen THEN "overflow"
    ELSE IF ~Has(fs, parentId) THEN "false"
    ELSE LET parent == FindOne(fs, parentId)
         IN  IF parent.parentId = null THEN "false"
             ELSE isDescendant(fs, parent.parentId, checkId, seen \cup {parentId})

\* isDescendant(parentId, checkId) of FolderTreeItem.handleDrop: searches the
\* child folders of parentId downward, in collection order, and stops at the
\* first child whose search does not return false (Array.prototype.some).
\* `path` holds the folders the recursion is inside of; meeting one of them
\* again means the recursion never returns (stack overflow).
RECURSIVE handleDropIsDescendant(_, _, _, _)
handleDropIsDescendant(fs, parentId, checkId, path) ==
    IF parentId = checkId THEN "true"
    ELSE IF parentId \in path THEN "overflow"
    ELSE LET childFolders == ChildIds(fs, parentId)
             subs == [i \in 1..Len(childFolders) |->
                        handleDropIsDescendant(fs, childFolders[i], checkId,
                                               path \cup {parentId})]
             decided == {i \in 1..Len(childFolders) : subs[i] # "false"}
         IN  IF decided = {} THEN "false"
             ELSE subs[CHOOSE i \in decided : \A j \in decided : i <= j]

\* Mutant of DeleteSteps: the folders are removed before the todos.
DeleteStepsFoldersFirst(fs, ts, ids) ==
    LET n == Len(ids)
        todosAfter[k \in 0..n] ==
            IF k = 0 THEN ts ELSE RemoveManyByFolder(todosAfter[k - 1], ids[k])
        foldersAfter[k \in 0..n] ==
            IF k = 0 THEN fs ELSE RemoveOne(foldersAfter[k - 1], ids[k])
    IN  [k \in 1..(2 * n) |->
            IF k <= n
            THEN [folders |-> foldersAfter[k], todos |-> ts]
            ELSE [folders |-> foldersAfter[n], todos |-> todosAfter[k - n]]]

\* The store after each call made by the two forEach loops of deleteFolder:
\* first todosCollection.removeMany({ folderId }) for every id, then
\* foldersCollection.removeOne({ id: folderId }) for every id.
DeleteSteps(fs, ts, ids) ==
    LET n == Len(ids)
        todosAfter[k \in 0..n] ==
            IF k = 0 THEN ts ELSE RemoveManyByFolder(todosAfter[k - 1], ids[k])
        foldersAfter[k \in 0..n] ==
            IF k = 0 THEN fs ELSE RemoveOne(foldersAfter[k - 1], ids[k])
    IN  [k \in 1..(2 * n) |->
            IF k <= n
            THEN [folders |-> fs, todos |-> todosAfter[k]]
            ELSE [folders |-> foldersAfter[k - n], todos |-> todosAfter[n]]]

\* The record of a call: the operation, how it ended, and the numbers of
\* folders and todos it removed.
Call(op, res, nf, nt) == [op |-> op, res |-> res, nf |-> nf, nt |-> nt]

\* folderService.createFolder(name, parentId, color).  A Folder record is
\* modelled by its id and parentId: name, color, createdAt and updatedAt are
\* display data that no operation reads.
CreateFolder(parentId) ==
    LET newFolder == [id |-> FolderId(now), parentId |-> parentId]
    IN  /\ IF CanInsert(folders, newFolder)
           THEN /\ folders' = Insert(folders, newFolder)
                /\ last' = Call("createFolder", "ok", 0, 0)
           ELSE /\ folders' = folders
                /\ last' = Call("createFolder", "duplicate id", 0, 0)
        /\ UNCHANGED <<todos, selectedFolderId, now, svars, dvars, lvars, hvars>>

\* folderService.updateFolder(id, { name, color }): updateOne sets name,
\* color and updatedAt of the folder, and neither its id nor its parentId.
UpdateFolder(id) ==
    /\ folders' = folders
    /\ last' = Call("updateFolder", IF Has(folders, id) THEN "ok" ELSE "no match", 0, 0)
    /\ UNCHANGED <<todos, selectedFolderId, now, svars, dvars, lvars, hvars>>

\* folderService.deleteFolder(id)
DeleteFolder(id) ==
    /\ IF id = root
       THEN /\ UNCHANGED <<folders, todos>>
            /\ last' = Call("deleteFolder", "Cannot delete root folder", 0, 0)
       ELSE LET del == folderIdsToDelete(folders, id)
            IN  IF ~del.ok
                THEN /\ UNCHANGED <<folders, todos>>
                     /\ last' = Call("deleteFolder", "RangeError", 0, 0)
                ELSE LET steps == DeleteSteps(folders, todos, del.ids)
                         final == steps[Len(steps)]
                     IN  /\ folders' = final.folders
                         /\ todos' = final.todos
                         /\ last' = Call("deleteFolder", "ok",
                                         Len(folders) - Len(final.folders),
                                         Len(todos) - Len(final.todos))
    /\ UNCHANGED <<selectedFolderId, now, svars, dvars, lvars, hvars>>

\* Mutant of MoveFolder: the root guard is missing.
MoveFolderNoRootGuard(folderId, newParentId) ==
    /\ LET d == isDescendant(folders, newParentId, folderId, {})
       IN  CASE d = "true" ->
                  /\ folders' = folders
                  /\ last' = Call("moveFolder",
                                  "Cannot move folder to its own descendant", 0, 0)
             [] d = "overflow" ->
                  /\ folders' = folders
                  /\ last' = Call("moveFolder", "RangeError", 0, 0)
             [] OTHER ->
                  /\ folders' = SetParent(folders, folderId, newParentId)
                  /\ last' = Call("moveFolder",
                                  IF Has(folders, folderId) THEN "ok" ELSE "no match",
                                  0, 0)
    /\ UNCHANGED <<todos, selectedFolderId, now, svars, dvars, lvars, hvars>>

\* folderService.moveFolder(folderId, newParentId)
MoveFolder(folderId, newParentId) ==
    /\ IF folderId = root
       THEN /\ folders' = folders
            /\ last' = Call("moveFolder", "Cannot move root folder", 0, 0)
       ELSE LET d == isDescendant(folders, newParentId, folderId, {})
            IN  CASE d = "true" ->
                       /\ folders' = folders
                       /\ last' = Call("moveFolder",
                                       "Cannot move folder to its own descendant", 0, 0)
                  [] d = "overflow" ->
                       /\ folders' = folders
                       /\ last' = Call("moveFolder", "RangeError", 0, 0)
                  [] OTHER ->
                       /\ folders' = SetParent(folders, folderId, newParentId)
                       /\ last' = Call("moveFolder",
                                       IF Has(folders, folderId) THEN "ok" ELSE "no match",
                                       0, 0)
    /\ UNCHANGED <<todos, selectedFolderId, now, svars, dvars, lvars, hvars>>

\* The folders below `id` in the tree: the least set holding the children of
\* id and the children of its members.
RECURSIVE Closure(_, _)
Closure(fs, S) ==
    LET next == S \cup {f.id : f \in {g \in Range(fs) : g.parentId \in S}}
    IN  IF next = S THEN S ELSE Closure(fs, next)

Descendants(fs, id) == Closure(fs, {f.id : f \in {g \in Range(fs) : g.parentId = id}})

\* FolderTree renders the root folder and, recursively, the child folders of
\* every rendered folder; a click on a rendered folder selects it.
SelectFolder(id) ==
    /\ Has(folders, root)
    /\ id \in {root} \cup Descendants(folders, root)
    /\ selectedFolderId' = id
    /\ UNCHANGED <<folders, todos, now, svars, dvars, last, lvars, hvars>>

\* WorkingTodoApp.addTodo
AddTodo ==
    LET newTodo == [id |-> TodoId(now), folderId |-> selectedFolderId]
    IN  /\ (Len(todos) < MaxTodos \/ ~CanInsert(todos, newTodo))
        /\ IF CanInsert(todos, newTodo)
           THEN /\ todos' = Insert(todos, newTodo)
                /\ last' = Call("addTodo", "ok", 0, 0)
           ELSE /\ todos' = todos
                /\ last' = Call("addTodo", "duplicate id", 0, 0)
        /\ UNCHANGED <<folders, selectedFolderId, now, svars, dvars, lvars, hvars>>

\* The folders FolderTree renders: root (nothing when there is none) and,
\* recursively, the child folders of every rendered folder
RenderedFolders == IF Has(folders, root) THEN {root} \cup Descendants(folders, root) ELSE {}

\* FolderTree.handleCreateFolder with a non-empty name:
\* folderService.createFolder(name, selectedFolderId || 'root')
handleCreateFolder ==
    /\ Has(folders, root)
    /\ CreateFolder(selectedFolderId)

\* FolderTree.handleDropTodo(todoId, folderId): a todo shown in the tree is
\* dropped on a rendered folder; updateOne({ id: todoId }, { $set: { folderId } })
handleDropTodo(todoId, folderId) ==
    /\ folderId \in RenderedFolders
    /\ \E t \in Range(todos) : t.id = todoId /\ t.folderId \in RenderedFolders
    /\ todos' = [i \in 1..Len(todos) |->
                    IF todos[i].id = todoId /\ \A j \in 1..(i - 1) : todos[j].id # todoId
                    THEN [todos[i] EXCEPT !.folderId = folderId]
                    ELSE todos[i]]
    /\ last' = Call("handleDropTodo", "ok", 0, 0)
    /\ UNCHANGED <<folders, selectedFolderId, now, svars, dvars, lvars, hvars>>

\* FolderTreeItem.handleDrop for a dragged folder: a rendered folder other
\* than root (draggable={folder.id !== 'root'}) is dropped on a rendered folder
handleDrop(draggedFolderId, folderId) ==
    /\ draggedFolderId \in RenderedFolders \ {root}
    /\ folderId \in RenderedFolders
    /\ LET d == IF draggedFolderId = folderId THEN "same"
                ELSE handleDropIsDescendant(folders, draggedFolderId, folderId, {})
       IN  IF d = "false"
           THEN MoveFolder(draggedFolderId, folderId)
           ELSE /\ last' = Call("handleDrop",
                                IF d = "overflow" THEN "RangeError" ELSE "not moved", 0, 0)
                /\ UNCHANGED <<folders, todos, selectedFolderId, now, svars, dvars, lvars, hvars>>

\* FolderTreeItem.handleDelete, the confirm dialog accepted
handleDelete(id) ==
    /\ id \in RenderedFolders \ {root}
    /\ DeleteFolder(id)

\* The clock advances.
Tick ==
    /\ now < MaxTime
    /\ now' = now + 1
    /\ UNCHANGED <<fvars, lvars, hvars, svars, dvars>>

\* initializeRootFolder() on an empty store, and WorkingTodoApp's initial state
FolderInit ==
    /\ folders = <<[id |-> root, parentId |-> null]>>
    /\ todos = <<>>
    /\ selectedFolderId = root
    /\ last = Call("init", "ok", 0, 0)

\* ------------------------------------------------------------------ TodoList

\* if (!enableVirtualization || todos.length < 50)
VirtualizationThreshold == 50

\* const buffer = 5
buffer == 5

\* The largest todos.length the list is given: long enough for a list scrolled
\* to its end to have its window start more than `buffer` items beyond the end
\* of a list of VirtualizationThreshold items.
MaxCount == 57

\* The values of the todos.length prop: around the virtualization threshold.
Counts == (VirtualizationThreshold - 2)..MaxCount

\* The values of the itemHeight and containerHeight props, in pixels.
ItemHeights == {2, 3}

ContainerHeights == {4, 7}

Min(a, b) == IF a <= b THEN a ELSE b

Max(a, b) == IF a >= b THEN a ELSE b

\* Math.floor(a / b) and Math.ceil(a / b) for a >= 0, b > 0
Floor(a, b) == a \div b

Ceil(a, b) == (a + b - 1) \div b

\* The largest scrollTop of the container: the inner div is
\* todos.length * itemHeight high, the container containerHeight.
MaxScrollTop(n, h, v) == Max(0, n * h - v)

\* The scroll offsets of the model: up to the end of the longest list.
ScrollTops ==
    0..(MaxCount * (CHOOSE h \in ItemHeights : \A g \in ItemHeights : g <= h))

\* Mutant of ItemsToRender: the buffer is applied with the wrong sign.
ItemsToRenderBufferInside(n, range, virt) ==
    IF ~virt \/ n < VirtualizationThreshold
    THEN [startIndex |-> 0, endIndex |-> n - 1]
    ELSE [startIndex |-> Max(0, range.start + buffer),
          endIndex |-> Min(n - 1, range.end - buffer)]

\* itemsToRender: the index range [startIndex, endIndex] of the slice
ItemsToRender(n, range, virt) ==
    IF ~virt \/ n < VirtualizationThreshold
    THEN [startIndex |-> 0, endIndex |-> n - 1]
    ELSE [startIndex |-> Max(0, range.start - buffer),
          endIndex |-> Min(n - 1, range.end + buffer)]

\* The indices of todos.slice(startIndex, endIndex + 1)
Slice(n, r) == {i \in 0..(n - 1) : r.startIndex <= i /\ i <= r.endIndex}

\* The indices TodoList renders in the current state
Rendered == Slice(todoCount, ItemsToRender(todoCount, visibleRange, enableVirtualization))

\* handleScroll: the range computed from scrollTop
ScrollRange(n, h, v, top) ==
    LET visibleStart == Floor(top, h)
        visibleEnd == Min(n - 1, visibleStart + Ceil(v, h) - 1)
    IN  [start |-> visibleStart, end |-> visibleEnd]

\* useEffect "initialize visible range"
InitialRange(n, h, v) == [start |-> 0, end |-> Min(n - 1, Ceil(v, h) - 1)]

\* The user scrolls the container to `top` and handleScroll runs.  Without
\* virtualization the container has no height of its own and does not scroll.
Scroll(top) ==
    /\ enableVirtualization /\ todoCount > 0
    /\ ~effectPending /\ ~scrollPending
    /\ top \in 0..MaxScrollTop(todoCount, itemHeight, containerHeight)
    /\ top # scrollTop
    /\ scrollTop' = top
    /\ visibleRange' = ScrollRange(todoCount, itemHeight, containerHeight, top)
    /\ listLast' = "scroll"
    /\ UNCHANGED <<enableVirtualization, itemHeight, containerHeight, todoCount,
                   effectPending, scrollPending>>
    /\ UNCHANGED <<fvars, now, svars, dvars, hvars>>

\* The todos prop changes length (a todo is inserted or deleted, or the
\* filter changes): TodoList renders again with the visibleRange it has, the
\* effect is scheduled, and a container scrolled beyond the new content is
\* brought back by the browser, which then delivers a scroll event.
TodosChange(n) ==
    /\ ~effectPending /\ ~scrollPending
    /\ n \in Counts /\ n # todoCount
    /\ todoCount' = n
    /\ scrollTop' = Min(scrollTop, MaxScrollTop(n, itemHeight, containerHeight))
    /\ scrollPending' = (enableVirtualization /\ scrollTop' # scrollTop)
    /\ effectPending' = TRUE
    /\ listLast' = "change"
    /\ UNCHANGED <<enableVirtualization, itemHeight, containerHeight, visibleRange>>
    /\ UNCHANGED <<fvars, now, svars, dvars, hvars>>

\* The effect with dependencies [todos.length, itemHeight, containerHeight,
\* enableVirtualization] runs after the render.
RunEffect ==
    /\ effectPending
    /\ effectPending' = FALSE
    /\ visibleRange' = IF enableVirtualization
                       THEN InitialRange(todoCount, itemHeight, containerHeight)
                       ELSE visibleRange
    /\ listLast' = "effect"
    /\ UNCHANGED <<enableVirtualization, itemHeight, containerHeight, todoCount,
                   scrollTop, scrollPending>>
    /\ UNCHANGED <<fvars, now, svars, dvars, hvars>>

\* The scroll event of a scrollTop the browser changed is delivered and
\* handleScroll runs.
ScrollEvent ==
    /\ scrollPending /\ ~effectPending
    /\ scrollPending' = FALSE
    /\ visibleRange' = ScrollRange(todoCount, itemHeight, containerHeight, scrollTop)
    /\ listLast' = "scroll"
    /\ UNCHANGED <<enableVirtualization, itemHeight, containerHeight, todoCount,
                   scrollTop, effectPending>>
    /\ UNCHANGED <<fvars, now, svars, dvars, hvars>>

\* TodoList is mounted: the first render, before its effects
ListInit ==
    /\ enableVirtualization \in BOOLEAN
    /\ itemHeight \in ItemHeights
    /\ containerHeight \in ContainerHeights
    /\ todoCount \in Counts
    /\ scrollTop = 0
    /\ visibleRange = [start |-> 0, end |-> 0]
    /\ effectPending = TRUE
    /\ scrollPending = FALSE
    /\ listLast = "mount"

\* No TodoList is mounted.
ListIdle ==
    /\ enableVirtualization = FALSE
    /\ itemHeight = 0
    /\ containerHeight = 0
    /\ todoCount = 0
    /\ scrollTop = 0
    /\ visibleRange = [start |-> 0, end |-> 0]
    /\ effectPending = FALSE
    /\ scrollPending = FALSE
    /\ listLast = "none"

\* -------------------------------------------------------- TodoList selection

\* The number of todos the parent has to pass to the list.
MaxListTodos == 3

\* The ids of those todos
ListTodoIds == {TodoId(t) : t \in 1..MaxListTodos}

\* The record of a selection handler: its name and the size of the
\* selection it found
SelCall(op) == [op |-> op, had |-> Cardinality(selectedIds)]

\* The Select button (rendered outside selection mode, and like every
\* control of the list only when todos.length > 0): setIsSelectionMode(true)
EnterSelectionMode ==
    /\ listTodoIds # {} /\ ~isSelectionMode
    /\ isSelectionMode' = TRUE
    /\ selectionLast' = SelCall("select")
    /\ UNCHANGED <<listTodoIds, selectedIds>>
    /\ UNCHANGED <<fvars, now, lvars, hvars, dvars>>

\* A click on the TodoItem of todo `id`; handleItemSelect(id) returns at once
\* outside selection mode and toggles the id otherwise
handleItemSelect(id) ==
    /\ id \in listTodoIds
    /\ selectedIds' = IF ~isSelectionMode THEN selectedIds
                      ELSE IF id \in selectedIds THEN selectedIds \ {id}
                      ELSE selectedIds \cup {id}
    /\ selectionLast' = SelCall("handleItemSelect")
    /\ UNCHANGED <<listTodoIds, isSelectionMode>>
    /\ UNCHANGED <<fvars, now, lvars, hvars, dvars>>

\* The Select All / Deselect All button (rendered in selection mode)
handleSelectAll ==
    /\ listTodoIds # {} /\ isSelectionMode
    /\ selectedIds' = IF Cardinality(selectedIds) = Cardinality(listTodoIds)
                      THEN {}
                      ELSE listTodoIds
    /\ selectionLast' = SelCall("handleSelectAll")
    /\ UNCHANGED <<listTodoIds, isSelectionMode>>
    /\ UNCHANGED <<fvars, now, lvars, hvars, dvars>>

\* The Complete, Activate and Delete buttons (rendered in selection mode when
\* selectedIds.size > 0): handleBulkAction(action).  onBulkDelete(ids) makes
\* the parent delete those todos, which leave the todos prop.
handleBulkAction(action) ==
    /\ listTodoIds # {} /\ isSelectionMode /\ selectedIds # {}
    /\ listTodoIds' = IF action = "delete" THEN listTodoIds \ selectedIds ELSE listTodoIds
    /\ selectedIds' = {}
    /\ selectionLast' = SelCall("handleBulkAction")
    /\ UNCHANGED isSelectionMode
    /\ UNCHANGED <<fvars, now, lvars, hvars, dvars>>

\* clearSelection leaving the selected ids in place
clearSelectionKeepsIds ==
    /\ listTodoIds # {} /\ isSelectionMode
    /\ isSelectionMode' = FALSE
    /\ selectionLast' = SelCall("clearSelection")
    /\ UNCHANGED <<listTodoIds, selectedIds>>
    /\ UNCHANGED <<fvars, now, lvars, hvars, dvars>>

\* The Cancel button (rendered in selection mode): clearSelection()
clearSelection ==
    /\ listTodoIds # {} /\ isSelectionMode
    /\ selectedIds' = {}
    /\ isSelectionMode' = FALSE
    /\ selectionLast' = SelCall("clearSelection")
    /\ UNCHANGED listTodoIds
    /\ UNCHANGED <<fvars, now, lvars, hvars, dvars>>

\* The parent renders the list with other todos: a todo was deleted through
\* its own TodoItem or added, or the filters changed.
TodosPropChange(ids) ==
    /\ ids # listTodoIds
    /\ listTodoIds' = ids
    /\ selectionLast' = SelCall("todos")
    /\ UNCHANGED <<selectedIds, isSelectionMode>>
    /\ UNCHANGED <<fvars, now, lvars, hvars, dvars>>

\* TodoList is mounted over some todos
SelectionInit ==
    /\ listTodoIds \in SUBSET ListTodoIds
    /\ selectedIds = {}
    /\ isSelectionMode = FALSE
    /\ selectionLast = [op |-> "mount", had |-> 0]

\* No TodoList is mounted.
SelectionIdle ==
    /\ listTodoIds = {}
    /\ selectedIds = {}
    /\ isSelectionMode = FALSE
    /\ selectionLast = [op |-> "none", had |-> 0]

\* ------------------------------------------------------------------ useTodos

\* The largest number of todos in the collection.
MaxStore == 2

\* The longest list handed to sortTodos
MaxSortLen == 3

\* The length of a local calendar day, in the clock's milliseconds.
DayLength == 2

\* Math.random().toString(36).substring(2): the values the generator may give
RandomParts == {"a", "b"}

\* generateId(): Math.random().toString(36).substring(2) + Date.now().toString(36)
generateId(r, t) == r \o ToString(t)

TodoIds == {generateId(r, t) : r \in RandomParts, t \in 1..MaxTime}

\* Text is a sequence of one-character strings over a small alphabet.
Chars == {" ", "A", "B", "a", "b"}

\* The UTF-16 code unit of a character: the order of < on JavaScript strings
CodeUnit(c) ==
    CASE c = " " -> 32 [] c = "A" -> 65 [] c = "B" -> 66 [] c = "a" -> 97 [] c = "b" -> 98

\* String.prototype.toLowerCase()
toLowerCase(s) ==
    [i \in 1..Len(s) |-> CASE s[i] = "A" -> "a" [] s[i] = "B" -> "b" [] OTHER -> s[i]]

\* String.prototype.includes(needle)
includes(hay, needle) ==
    \E i \in 0..(Len(hay) - Len(needle)) : SubSeq(hay, i + 1, i + Len(needle)) = needle

\* String.prototype.trim()
trim(s) ==
    LET kept == {i \in 1..Len(s) : s[i] # " "}
    IN  IF kept = {} THEN <<>>
        ELSE SubSeq(s, CHOOSE i \in kept : \A j \in kept : i <= j,
                       CHOOSE i \in kept : \A j \in kept : j <= i)

\* a < b on JavaScript strings: lexicographic by code unit
StringLess(a, b) ==
    \E k \in 1..Len(b) :
        /\ k <= Len(a) + 1
        /\ \A j \in 1..(k - 1) : a[j] = b[j]
        /\ (k = Len(a) + 1 \/ CodeUnit(a[k]) < CodeUnit(b[k]))

\* The todoData a caller passes to createTodo (Omit<Todo, 'id' | 'createdAt' |
\* 'updatedAt'>); dueDate 0 stands for no dueDate, description <<>> for none.
TodoInputs ==
    { [title |-> <<"B", "a">>, description |-> <<>>, completed |-> FALSE,
       priority |-> "high", tags |-> << <<"a">> >>, dueDate |-> 1],
      [title |-> <<"a", "b">>, description |-> <<"B">>, completed |-> TRUE,
       priority |-> "low", tags |-> <<>>, dueDate |-> 0],
      [title |-> <<"a">>, description |-> <<>>, completed |-> FALSE,
       priority |-> "medium", tags |-> << <<"a">>, <<"B">> >>, dueDate |-> 0] }

\* FilterOptions: "" stands for an absent status or priority, <<>> for absent
\* tags or an absent searchTerm, has = FALSE for an absent dateRange.
NoDateRange == [has |-> FALSE, start |-> 0, end |-> 0]

NoFilter ==
    [status |-> "", priority |-> "", searchTerm |-> <<>>, tags |-> <<>>,
     dateRange |-> NoDateRange]

Filters ==
    { NoFilter,
      [NoFilter EXCEPT !.status = "all"],
      [NoFilter EXCEPT !.status = "active"],
      [NoFilter EXCEPT !.status = "completed"],
      [NoFilter EXCEPT !.priority = "high"],
      [NoFilter EXCEPT !.tags = << <<"a">> >>],
      [NoFilter EXCEPT !.dateRange = [has |-> TRUE, start |-> 1, end |-> 1]] }

\* UseTodosOptions: limit 0 stands for no limit.  The defaults of useTodos:
\* filter = {}, sortBy = 'createdAt', sortDirection = 'desc', limit undefined.
DefaultOptions == [filter |-> NoFilter, sortBy |-> "createdAt", sortDirection |-> "desc", limit |-> 0]

OptionChoices ==
    {[DefaultOptions EXCEPT !.filter = f] : f \in Filters}
        \cup {[DefaultOptions EXCEPT !.limit = 1],
              [DefaultOptions EXCEPT !.sortBy = "date"],
              [DefaultOptions EXCEPT !.sortDirection = "asc", !.limit = 1]}

\* selector of useTodos, as the collection matches it against a todo
MatchesSelector(todo, filter) ==
    /\ filter.status = "active" => ~todo.completed
    /\ filter.status = "completed" => todo.completed
    /\ filter.priority # "" => todo.priority = filter.priority
    /\ Len(filter.tags) > 0 => Range(filter.tags) \cap Range(todo.tags) # {}
    /\ filter.dateRange.has =>
         /\ todo.createdAt >= filter.dateRange.start
         /\ todo.createdAt <= filter.dateRange.end

\* collection.find(selector, { sort: { createdAt: direction } }): a stable sort
RECURSIVE SortByCreatedAt(_, _)
SortByCreatedAt(items, direction) ==
    IF items = <<>> THEN <<>>
    ELSE LET before(a, b) == IF direction = "asc" THEN a.createdAt < b.createdAt
                             ELSE a.createdAt > b.createdAt
             k == CHOOSE i \in 1..Len(items) :
                    /\ \A j \in 1..Len(items) : ~before(items[j], items[i])
                    /\ \A j \in 1..(i - 1) : before(items[i], items[j])
         IN  <<items[k]>> \o
             SortByCreatedAt(SubSeq(items, 1, k - 1) \o SubSeq(items, k + 1, Len(items)),
                             direction)

\* data of useSignalDB: collection.find(selector, { sort, limit }).fetch().
\* Sorting on 'date', which no todo has, leaves the order as it is.
HookTodos(st, options) ==
    LET matching == SelectSeq(st, LAMBDA t : MatchesSelector(t, options.filter))
        sorted == IF options.sortBy = "createdAt"
                  THEN SortByCreatedAt(matching, options.sortDirection)
                  ELSE matching
    IN  IF options.limit > 0
        THEN SubSeq(sorted, 1, Min(options.limit, Len(sorted)))
        ELSE sorted

\* filterTodos comparing the search term as typed, without toLowerCase()
filterTodosCaseSensitive(ts, filterOptions) ==
    LET byStatus ==
            IF filterOptions.status = "active"
            THEN SelectSeq(ts, LAMBDA t : ~t.completed)
            ELSE IF filterOptions.status = "completed"
            THEN SelectSeq(ts, LAMBDA t : t.completed)
            ELSE ts
        byPriority ==
            IF filterOptions.priority # ""
            THEN SelectSeq(byStatus, LAMBDA t : t.priority = filterOptions.priority)
            ELSE byStatus
        byTags ==
            IF Len(filterOptions.tags) > 0
            THEN SelectSeq(byPriority, LAMBDA t :
                    \E i \in 1..Len(filterOptions.tags) :
                        filterOptions.tags[i] \in Range(t.tags))
            ELSE byPriority
        bySearch ==
            IF filterOptions.searchTerm # <<>>
            THEN LET searchTerm == filterOptions.searchTerm
                 IN  SelectSeq(byTags, LAMBDA t :
                        \/ includes(toLowerCase(t.title), searchTerm)
                        \/ (t.description # <<>>
                              /\ includes(toLowerCase(t.description), searchTerm))
                        \/ \E i \in 1..Len(t.tags) :
                              includes(toLowerCase(t.tags[i]), searchTerm))
            ELSE byTags
        byDate ==
            IF filterOptions.dateRange.has
            THEN SelectSeq(bySearch, LAMBDA t :
                    /\ t.createdAt >= filterOptions.dateRange.start
                    /\ t.createdAt <= filterOptions.dateRange.end)
            ELSE bySearch
    IN  byDate

\* filterTodos(filterOptions) over the hook's todos
filterTodos(ts, filterOptions) ==
    LET byStatus ==
            IF filterOptions.status = "active"
            THEN SelectSeq(ts, LAMBDA t : ~t.completed)
            ELSE IF filterOptions.status = "completed"
            THEN SelectSeq(ts, LAMBDA t : t.completed)
            ELSE ts
        byPriority ==
            IF filterOptions.priority # ""
            THEN SelectSeq(byStatus, LAMBDA t : t.priority = filterOptions.priority)
            ELSE byStatus
        byTags ==
            IF Len(filterOptions.tags) > 0
            THEN SelectSeq(byPriority, LAMBDA t :
                    \E i \in 1..Len(filterOptions.tags) :
                        filterOptions.tags[i] \in Range(t.tags))
            ELSE byPriority
        bySearch ==
            IF filterOptions.searchTerm # <<>>
            THEN LET searchTerm == toLowerCase(filterOptions.searchTerm)
                 IN  SelectSeq(byTags, LAMBDA t :
                        \/ includes(toLowerCase(t.title), searchTerm)
                        \/ (t.description # <<>>
                              /\ includes(toLowerCase(t.description), searchTerm))
                        \/ \E i \in 1..Len(t.tags) :
                              includes(toLowerCase(t.tags[i]), searchTerm))
            ELSE byTags
        byDate ==
            IF filterOptions.dateRange.has
            THEN SelectSeq(bySearch, LAMBDA t :
                    /\ t.createdAt >= filterOptions.dateRange.start
                    /\ t.createdAt <= filterOptions.dateRange.end)
            ELSE bySearch
    IN  byDate

\* getTodoStats() dividing without the total > 0 guard: 0 / 0 on an empty list
getTodoStatsNoGuard(ts, t) ==
    LET total == Len(ts)
        completed == Len(SelectSeq(ts, LAMBDA x : x.completed))
        today == (t \div DayLength) * DayLength
        tomorrow == today + DayLength
    IN  [total |-> total,
         completed |-> completed,
         active |-> total - completed,
         completionRate |-> [num |-> completed * 100, den |-> total],
         todayAdded |-> Len(SelectSeq(ts, LAMBDA x :
                                x.createdAt >= today /\ x.createdAt < tomorrow)),
         overdueCount |-> Len(SelectSeq(ts, LAMBDA x :
                                ~x.completed /\ x.dueDate # 0 /\ x.dueDate < t))]

\* getTodoStats() over the hook's todos at time t.  completionRate is the
\* exact quotient num / den.
getTodoStats(ts, t) ==
    LET total == Len(ts)
        completed == Len(SelectSeq(ts, LAMBDA x : x.completed))
        today == (t \div DayLength) * DayLength
        tomorrow == today + DayLength
    IN  [total |-> total,
         completed |-> completed,
         active |-> total - completed,
         completionRate |-> IF total > 0 THEN [num |-> completed * 100, den |-> total]
                            ELSE [num |-> 0, den |-> 1],
         todayAdded |-> Len(SelectSeq(ts, LAMBDA x :
                                x.createdAt >= today /\ x.createdAt < tomorrow)),
         overdueCount |-> Len(SelectSeq(ts, LAMBDA x :
                                ~x.completed /\ x.dueDate # 0 /\ x.dueDate < t))]

\* getTagStats(): the number of occurrences of each tag that occurs
getTagStats(ts) ==
    LET tagsSeen == UNION {Range(ts[i].tags) : i \in 1..Len(ts)}
    IN  [tag \in tagsSeen |->
            Cardinality({<<i, j>> \in (1..Len(ts)) \X (1..2) :
                            j <= Len(ts[i].tags) /\ ts[i].tags[j] = tag})]

\* getPriorityStats()
getPriorityStats(ts) ==
    [p \in {"low", "medium", "high"} |-> Len(SelectSeq(ts, LAMBDA x : x.priority = p))]

\* No sortTodos call is made.
NoSortCall ==
    [called |-> FALSE, todosToSort |-> <<>>, sortField |-> "date", direction |-> "desc",
     result |-> <<>>]

\* The value sortTodos compares for a todo: the lower-cased title, the rank
\* of the priority (priorityOrder), or createdAt.getTime()
SortVal(todo, sortField) ==
    CASE sortField = "title" -> toLowerCase(todo.title)
      [] sortField = "priority" ->
            (CASE todo.priority = "low" -> 1 [] todo.priority = "medium" -> 2
               [] todo.priority = "high" -> 3)
      [] OTHER -> todo.createdAt

\* aVal < bVal
ValLess(aVal, bVal, sortField) ==
    IF sortField = "title" THEN StringLess(aVal, bVal) ELSE aVal < bVal

\* The comparator of sortTodos is negative: a is ordered before b
ComesBefore(a, b, sortField, direction) ==
    IF direction = "asc"
    THEN ValLess(SortVal(a, sortField), SortVal(b, sortField), sortField)
    ELSE ValLess(SortVal(b, sortField), SortVal(a, sortField), sortField)

\* sortTodos comparing the titles as they are, without toLowerCase()
RECURSIVE sortTodosCaseSensitive(_, _, _)
sortTodosCaseSensitive(todosToSort, sortField, direction) ==
    IF todosToSort = <<>> THEN <<>>
    ELSE LET before(a, b) ==
                 IF sortField = "title"
                 THEN IF direction = "asc" THEN StringLess(a.title, b.title)
                      ELSE StringLess(b.title, a.title)
                 ELSE ComesBefore(a, b, sortField, direction)
             k == CHOOSE i \in 1..Len(todosToSort) :
                    /\ \A j \in 1..Len(todosToSort) : ~before(todosToSort[j], todosToSort[i])
                    /\ \A j \in 1..(i - 1) : before(todosToSort[i], todosToSort[j])
         IN  <<todosToSort[k]>> \o
             sortTodosCaseSensitive(SubSeq(todosToSort, 1, k - 1)
                                        \o SubSeq(todosToSort, k + 1, Len(todosToSort)),
                                    sortField, direction)

\* sortTodos(todosToSort, sortField, direction): [...todosToSort].sort(compare),
\* a stable sort; the first of the least elements comes first
RECURSIVE sortTodos(_, _, _)
sortTodos(todosToSort, sortField, direction) ==
    IF todosToSort = <<>> THEN <<>>
    ELSE LET k == CHOOSE i \in 1..Len(todosToSort) :
                    /\ \A j \in 1..Len(todosToSort) :
                          ~ComesBefore(todosToSort[j], todosToSort[i], sortField, direction)
                    /\ \A j \in 1..(i - 1) :
                          ComesBefore(todosToSort[i], todosToSort[j], sortField, direction)
         IN  <<todosToSort[k]>> \o
             sortTodos(SubSeq(todosToSort, 1, k - 1)
                           \o SubSeq(todosToSort, k + 1, Len(todosToSort)),
                       sortField, direction)

\* The todos a caller may hand to sortTodos, and the lists of them
SortPool ==
    { [id |-> generateId("a", t), title |-> d.title, description |-> d.description,
       completed |-> d.completed, priority |-> d.priority, tags |-> d.tags,
       dueDate |-> d.dueDate, createdAt |-> t, updatedAt |-> t] :
      d \in TodoInputs, t \in 1..MaxTime }

SortLists == UNION {[1..n -> SortPool] : n \in 0..MaxSortLen}

\* A caller is about to sort a list: the arguments of the call
SortInit ==
    \E todosToSort \in SortLists, sortField \in {"date", "priority", "title"},
       direction \in {"asc", "desc"} :
        sortCall = [called |-> FALSE, todosToSort |-> todosToSort, sortField |-> sortField,
                    direction |-> direction, result |-> <<>>]

\* The call of sortTodos returns.
SortTodos ==
    /\ ~sortCall.called
    /\ sortCall' = [sortCall EXCEPT
                       !.called = TRUE,
                       !.result = sortTodos(sortCall.todosToSort, sortCall.sortField,
                                            sortCall.direction)]
    /\ UNCHANGED <<store, hookOptions, hookLast, now, svars, dvars, fvars, lvars>>

\* createTodo(todoData) -> insert: the id is generated, createdAt and
\* updatedAt are the current time
CreateTodo(todoData, r) ==
    LET todo == [id |-> generateId(r, now),
                 title |-> todoData.title,
                 description |-> todoData.description,
                 completed |-> todoData.completed,
                 priority |-> todoData.priority,
                 tags |-> todoData.tags,
                 dueDate |-> todoData.dueDate,
                 createdAt |-> now,
                 updatedAt |-> now]
    IN  /\ (Len(store) < MaxStore \/ ~CanInsert(store, todo))
        /\ IF CanInsert(store, todo)
           THEN store' = Insert(store, todo) /\ hookLast' = "createTodo"
           ELSE store' = store /\ hookLast' = "createTodo: duplicate id"
        /\ UNCHANGED <<hookOptions, now, svars, dvars, sortCall, fvars, lvars>>

\* updateOne writing completed: true whatever flag it is given
SetCompletedTrue(st, id, completed, t) ==
    IF Has(st, id)
    THEN LET k == CHOOSE i \in 1..Len(st) : st[i].id = id
         IN  [st EXCEPT ![k].completed = TRUE, ![k].updatedAt = t]
    ELSE st

\* updateOne({ id }, { completed, updatedAt: new Date() }) of useSignalDB
SetCompleted(st, id, completed, t) ==
    IF Has(st, id)
    THEN LET k == CHOOSE i \in 1..Len(st) :
                    /\ st[i].id = id
                    /\ \A j \in 1..(i - 1) : st[j].id # id
         IN  [st EXCEPT ![k].completed = completed, ![k].updatedAt = t]
    ELSE st

\* toggleTodo(id) over the collection st at time t: the collection it leaves
\* and the value it returns
toggleTodo(st, id, t) ==
    IF ~Has(st, id)
    THEN [store |-> st, result |-> FALSE]
    ELSE [store |-> SetCompleted(st, id, ~FindOne(st, id).completed, t), result |-> TRUE]

\* toggleTodo(id)
ToggleTodo(id) ==
    /\ store' = toggleTodo(store, id, now).store
    /\ hookLast' = IF toggleTodo(store, id, now).result THEN "toggleTodo"
                   ELSE "toggleTodo: false"
    /\ UNCHANGED <<hookOptions, now, svars, dvars, sortCall, fvars, lvars>>

\* The Partial<Todo> patches a caller passes to updateTodo
Patches ==
    { [completed |-> TRUE],
      [title |-> <<" ", "b", " ">>],
      [createdAt |-> MaxTime],
      [updatedAt |-> 0] }

\* updateOne as an upsert: a todo is inserted when none matches
UpdateOneUpsert(st, id, update, t) ==
    IF Has(st, id)
    THEN LET k == CHOOSE i \in 1..Len(st) : st[i].id = id
         IN  [st EXCEPT ![k] = [f \in DOMAIN st[k] |->
                                   IF f = "updatedAt" THEN t
                                   ELSE IF f \in DOMAIN update THEN update[f]
                                   ELSE st[k][f]]]
    ELSE Append(st, [id |-> id, updatedAt |-> t])

\* updateOne(selector, update) of useSignalDB on the first todo with this id:
\* $set of { ...update, updatedAt: new Date() }
UpdateOne(st, id, update, t) ==
    IF Has(st, id)
    THEN LET k == CHOOSE i \in 1..Len(st) :
                    /\ st[i].id = id
                    /\ \A j \in 1..(i - 1) : st[j].id # id
             updateDoc == [f \in DOMAIN update \cup {"updatedAt"} |->
                             IF f = "updatedAt" THEN t ELSE update[f]]
         IN  [st EXCEPT ![k] = [f \in DOMAIN st[k] |->
                                   IF f \in DOMAIN updateDoc THEN updateDoc[f]
                                   ELSE st[k][f]]]
    ELSE st

\* updateTodo(id, update)
UpdateTodo(id, update) ==
    /\ store' = UpdateOne(store, id, update, now)
    /\ hookLast' = IF Has(store, id) THEN "updateTodo" ELSE "updateTodo: false"
    /\ UNCHANGED <<hookOptions, now, svars, dvars, sortCall, fvars, lvars>>

\* deleteTodo(id)
DeleteTodo(id) ==
    /\ store' = RemoveOne(store, id)
    /\ hookLast' = IF Has(store, id) THEN "deleteTodo" ELSE "deleteTodo: false"
    /\ UNCHANGED <<hookOptions, now, svars, dvars, sortCall, fvars, lvars>>

\* clearCompleted(): removeMany({ completed: true })
ClearCompleted ==
    /\ store' = SelectSeq(store, LAMBDA t : ~t.completed)
    /\ hookLast' = "clearCompleted"
    /\ UNCHANGED <<hookOptions, now, svars, dvars, sortCall, fvars, lvars>>

\* clearAll(): removeMany({})
ClearAll ==
    /\ store' = <<>>
    /\ hookLast' = "clearAll"
    /\ UNCHANGED <<hookOptions, now, svars, dvars, sortCall, fvars, lvars>>

\* updateMany with the selector dropped: every todo is written
UpdateManyAll(st, from, t) ==
    [i \in 1..Len(st) |-> [st[i] EXCEPT !.completed = ~from, !.updatedAt = t]]

\* todosCollection.updateMany({ completed: from }, { $set: { completed: ~from,
\* updatedAt: new Date() } })
UpdateManyCompleted(st, from, t) ==
    [i \in 1..Len(st) |->
        IF st[i].completed = from
        THEN [st[i] EXCEPT !.completed = ~from, !.updatedAt = t]
        ELSE st[i]]

\* markAllCompleted()
MarkAllCompleted ==
    /\ store' = UpdateManyCompleted(store, FALSE, now)
    /\ hookLast' = "markAllCompleted"
    /\ UNCHANGED <<hookOptions, now, svars, dvars, sortCall, fvars, lvars>>

\* markAllActive()
MarkAllActive ==
    /\ store' = UpdateManyCompleted(store, TRUE, now)
    /\ hookLast' = "markAllActive"
    /\ UNCHANGED <<hookOptions, now, svars, dvars, sortCall, fvars, lvars>>

\* The component renders useTodos with other options (SimpleApp: setFilters,
\* setSortBy, setSortDirection).
Render(options) ==
    /\ options # hookOptions
    /\ hookOptions' = options
    /\ UNCHANGED <<store, hookLast, now, svars, dvars, sortCall, fvars, lvars>>

\* The hook is mounted with the default options over an empty collection.
HookInit ==
    /\ store = <<>>
    /\ hookOptions = DefaultOptions
    /\ hookLast = "mount"
    /\ sortCall = NoSortCall

\* No useTodos hook is mounted.
HookIdle ==
    /\ store = <<>>
    /\ hookOptions = DefaultOptions
    /\ hookLast = "none"
    /\ sortCall = NoSortCall

\* ---------------------------------------------------------------- TodoFilter

\* The values of the search input: empty, a word, a blank
SearchInputs == {<<>>, <<"a">>, <<" ">>}

\* The values of the priority select ('' is "All priorities")
PriorityInputs == {"", "high"}

\* availableTags
TagInputs == {<<"a">>}

\* The values of a date input: 0 stands for the empty string, d > 0 for the
\* d-th day, which new Date(value) turns into the time of its start
DateInputs == {0, 1}

\* searchTimeoutRef holds no pending timer.
NoTimeout == [pending |-> FALSE, filters |-> NoFilter, value |-> <<>>]

\* The fields changed while the search timer has been pending, `field` added
Changed(field) == IF searchTimeout.pending THEN changedWhilePending \cup {field} ELSE {}

\* handleSearchChange(value): the timer set before is cleared and a new one
\* is set, whose callback closes over the filters prop of this render
handleSearchChange(value) ==
    /\ value # searchValue
    /\ searchValue' = value
    /\ searchTimeout' = [pending |-> TRUE, filters |-> filters, value |-> value]
    /\ changedWhilePending' = {}
    /\ filterLast' = "handleSearchChange"
    /\ UNCHANGED filters
    /\ UNCHANGED <<fvars, now, lvars, hvars, svars>>

\* The timer expires, 300 ms after the last keystroke: onFiltersChange({
\* ...filters, searchTerm: value.trim() || undefined }) with the filters the
\* callback closed over
SearchTimeout ==
    /\ searchTimeout.pending
    /\ filters' = [searchTimeout.filters EXCEPT !.searchTerm = trim(searchTimeout.value)]
    /\ searchTimeout' = NoTimeout
    /\ changedWhilePending' = {}
    /\ filterLast' = "timeout"
    /\ UNCHANGED searchValue
    /\ UNCHANGED <<fvars, now, lvars, hvars, svars>>

\* handleStatusChange(status)
handleStatusChange(status) ==
    /\ filters' = [filters EXCEPT !.status = IF status = "all" THEN "" ELSE status]
    /\ changedWhilePending' = Changed("status")
    /\ filterLast' = "handleStatusChange"
    /\ UNCHANGED <<searchValue, searchTimeout>>
    /\ UNCHANGED <<fvars, now, lvars, hvars, svars>>

\* handlePriorityChange(priority)
handlePriorityChange(priority) ==
    /\ filters' = [filters EXCEPT !.priority = priority]
    /\ changedWhilePending' = Changed("priority")
    /\ filterLast' = "handlePriorityChange"
    /\ UNCHANGED <<searchValue, searchTimeout>>
    /\ UNCHANGED <<fvars, now, lvars, hvars, svars>>

\* handleTagToggle(tag)
handleTagToggle(tag) ==
    /\ LET currentTags == filters.tags
           newTags == IF tag \in Range(currentTags)
                      THEN SelectSeq(currentTags, LAMBDA t : t # tag)
                      ELSE Append(currentTags, tag)
       IN  filters' = [filters EXCEPT !.tags = newTags]
    /\ changedWhilePending' = Changed("tags")
    /\ filterLast' = "handleTagToggle"
    /\ UNCHANGED <<searchValue, searchTimeout>>
    /\ UNCHANGED <<fvars, now, lvars, hvars, svars>>

\* handleDateRangeChange(field, value).  Emptying an input clears the range
\* when the other end is set and does nothing otherwise; a date replaces its
\* end of the range, the other end defaulting to the next day (start given)
\* or to the start of the day (end given).
handleDateRangeChange(field, value) ==
    /\ IF value = 0
       THEN IF filters.dateRange.has
            THEN /\ filters' = [filters EXCEPT !.dateRange = NoDateRange]
                 /\ changedWhilePending' = Changed("dateRange")
            ELSE UNCHANGED <<filters, changedWhilePending>>
       ELSE LET date == value * DayLength
                currentRange == filters.dateRange
                newRange ==
                    IF field = "start"
                    THEN IF currentRange.has
                         THEN [has |-> TRUE, start |-> date, end |-> currentRange.end]
                         ELSE [has |-> TRUE, start |-> date, end |-> date + DayLength]
                    ELSE IF currentRange.has
                         THEN [has |-> TRUE, start |-> currentRange.start, end |-> date]
                         ELSE [has |-> TRUE, start |-> (date \div DayLength) * DayLength,
                               end |-> date]
            IN  /\ filters' = [filters EXCEPT !.dateRange = newRange]
                /\ changedWhilePending' = Changed("dateRange")
    /\ filterLast' = "handleDateRangeChange"
    /\ UNCHANGED <<searchValue, searchTimeout>>
    /\ UNCHANGED <<fvars, now, lvars, hvars, svars>>

\* hasActiveFilters: the Clear All Filters / Reset button is rendered
hasActiveFilters ==
    \/ filters.searchTerm # <<>>
    \/ filters.status # ""
    \/ filters.priority # ""
    \/ Len(filters.tags) > 0
    \/ filters.dateRange.has

\* handleReset: setSearchValue(''), onFiltersChange({}), onReset()
handleReset ==
    /\ hasActiveFilters
    /\ searchValue' = <<>>
    /\ filters' = NoFilter
    /\ changedWhilePending' = {}
    /\ filterLast' = "handleReset"
    /\ UNCHANGED searchTimeout
    /\ UNCHANGED <<fvars, now, lvars, hvars, svars>>

\* SimpleApp mounts TodoFilter with filters = {}
FilterInit ==
    /\ filters = NoFilter
    /\ searchValue = <<>>
    /\ searchTimeout = NoTimeout
    /\ changedWhilePending = {}
    /\ filterLast = "mount"

\* No TodoFilter is mounted.
FilterIdle ==
    /\ filters = NoFilter
    /\ searchValue = <<>>
    /\ searchTimeout = NoTimeout
    /\ changedWhilePending = {}
    /\ filterLast = "none"

\* ---------------------------------------------------------- specifications

Init ==
    /\ FolderInit
    /\ now = 1
    /\ ListIdle
    /\ HookIdle
    /\ SelectionIdle
    /\ FilterIdle

Next ==
    \/ \E parentId \in FolderIds : CreateFolder(parentId)
    \/ \E id \in FolderIds : UpdateFolder(id)
    \/ \E id \in FolderIds : DeleteFolder(id)
    \/ \E folderId \in FolderIds, newParentId \in FolderIds : MoveFolder(folderId, newParentId)
    \/ \E id \in FolderIds : SelectFolder(id)
    \/ AddTodo
    \/ Tick

Spec == Init /\ [][Next]_vars

ListSpecInit ==
    /\ FolderInit
    /\ now = 1
    /\ ListInit
    /\ HookIdle
    /\ SelectionIdle
    /\ FilterIdle

ListNext ==
    \/ \E top \in ScrollTops : Scroll(top)
    \/ \E n \in Counts : TodosChange(n)
    \/ RunEffect
    \/ ScrollEvent

ListSpec == ListSpecInit /\ [][ListNext]_vars

HookSpecInit ==
    /\ FolderInit
    /\ now = 1
    /\ ListIdle
    /\ HookInit
    /\ SelectionIdle
    /\ FilterIdle

HookNext ==
    \/ \E todoData \in TodoInputs, r \in RandomParts : CreateTodo(todoData, r)
    \/ \E id \in TodoIds : ToggleTodo(id)
    \/ \E id \in TodoIds : DeleteTodo(id)
    \/ \E options \in OptionChoices : Render(options)
    \/ Tick

HookSpec == HookSpecInit /\ [][HookNext]_vars

\* The creations of the three stores: folders, the todos of WorkingTodoApp and
\* the todos of useTodos, with and without the clock advancing between them
IdNext ==
    \/ CreateFolder(root)
    \/ AddTodo
    \/ \E r \in RandomParts : CreateTodo(CHOOSE d \in TodoInputs : d.completed, r)
    \/ Tick

IdSpec == HookSpecInit /\ [][IdNext]_vars

\* Calls of sortTodos on lists of todos
SortSpecInit ==
    /\ FolderInit
    /\ now = 1
    /\ ListIdle
    /\ store = <<>>
    /\ hookOptions = DefaultOptions
    /\ hookLast = "mount"
    /\ SortInit
    /\ SelectionIdle
    /\ FilterIdle

SortNext == SortTodos

SortSpec == SortSpecInit /\ [][SortNext]_vars

\* The ids a caller passes: those of the stored todos and one that matches none
CallIds == Ids(store) \cup {generateId("b", now)}

\* The mutating operations of useTodos over one collection, the hook mounted
\* with its default options
CrudNext ==
    \/ \E todoData \in TodoInputs : CreateTodo(todoData, "a")
    \/ \E id \in CallIds, update \in Patches : UpdateTodo(id, update)
    \/ \E id \in CallIds : ToggleTodo(id)
    \/ \E id \in CallIds : DeleteTodo(id)
    \/ ClearCompleted
    \/ ClearAll
    \/ MarkAllCompleted
    \/ MarkAllActive
    \/ Tick

CrudSpec == HookSpecInit /\ [][CrudNext]_vars

\* WorkingTodoApp with its FolderTree: what the user can do in the folder UI
UiNext ==
    \/ \E id \in FolderIds : SelectFolder(id)
    \/ AddTodo
    \/ \E todoId \in Ids(todos), folderId \in FolderIds : handleDropTodo(todoId, folderId)
    \/ handleCreateFolder
    \/ \E draggedFolderId \in FolderIds, folderId \in FolderIds :
          handleDrop(draggedFolderId, folderId)
    \/ \E id \in FolderIds : handleDelete(id)
    \/ Tick

UiSpec == Init /\ [][UiNext]_vars

\* The selection events of a mounted TodoList and the changes of its todos prop
SelectionSpecInit ==
    /\ FolderInit
    /\ now = 1
    /\ ListIdle
    /\ HookIdle
    /\ SelectionInit
    /\ FilterIdle

SelectionNext ==
    \/ EnterSelectionMode
    \/ \E id \in ListTodoIds : handleItemSelect(id)
    \/ handleSelectAll
    \/ \E action \in {"delete", "complete", "activate"} : handleBulkAction(action)
    \/ clearSelection
    \/ \E ids \in SUBSET ListTodoIds : TodosPropChange(ids)

SelectionSpec == SelectionSpecInit /\ [][SelectionNext]_vars

\* The inputs of a mounted TodoFilter and the expiry of its search timer
FilterSpecInit ==
    /\ FolderInit
    /\ now = 1
    /\ ListIdle
    /\ HookIdle
    /\ SelectionIdle
    /\ FilterInit

FilterNext ==
    \/ \E value \in SearchInputs : handleSearchChange(value)
    \/ SearchTimeout
    \/ \E status \in {"all", "active", "completed"} : handleStatusChange(status)
    \/ \E priority \in PriorityInputs : handlePriorityChange(priority)
    \/ \E tag \in TagInputs : handleTagToggle(tag)
    \/ \E field \in {"start", "end"}, value \in DateInputs : handleDateRangeChange(field, value)
    \/ handleReset

FilterSpec == FilterSpecInit /\ [][FilterNext]_vars

\* ---------------------------------------------------- folder hierarchy claims

\* The folders reached from `id` by following parentId links upward, one
\* step or more.
RECURSIVE UpClosure(_, _)
UpClosure(fs, S) ==
    LET next == S \cup {f.parentId : f \in {g \in Range(fs) : g.id \in S /\ g.parentId # null}}
    IN  IF next = S THEN S ELSE UpClosure(fs, next)

Ancestors(fs, id) ==
    UpClosure(fs, {f.parentId : f \in {g \in Range(fs) : g.id = id /\ g.parentId # null}})

RootOK == Has(folders, root) /\ \A f \in Range(folders) : f.id = root => f.parentId = null

\* C1: after any sequence of createFolder, updateFolder, moveFolder and
\* deleteFolder calls from a store holding only root, no folder is its own
\* ancestor: following parentId links upward from a folder never returns to it.
C1_Acyclic == \A f \in Range(folders) : f.id \notin Ancestors(folders, f.id)

\* C2: for a folder a, moveFolder(a, b) is rejected and changes no parentId
\* when a is root, b = a or b is a descendant of a; in every other case it
\* succeeds and sets a.parentId to b (and no other folder changes).
C2_MoveFolderContract ==
    [][\A a \in Ids(folders), b \in FolderIds :
          MoveFolder(a, b) =>
            IF a = root \/ b = a \/ b \in Descendants(folders, a)
            THEN /\ folders' = folders
                 /\ last'.res \in {"Cannot move root folder",
                                   "Cannot move folder to its own descendant"}
            ELSE /\ last'.res = "ok"
                 /\ Len(folders') = Len(folders)
                 /\ \A i \in 1..Len(folders) :
                       /\ folders'[i].id = folders[i].id
                       /\ folders'[i].parentId =
                            IF folders[i].id = a THEN b ELSE folders[i].parentId]_vars

\* C3: after deleteFolder(id) with id # root returns, no todo has a folderId
\* equal to id or to a folder that was a descendant of id, and neither id nor
\* any of those descendants is left in the store.
C3_DeleteFolderRemovesSubtree ==
    [][\A id \in FolderIds \ {root} :
          (DeleteFolder(id) /\ last'.res = "ok") =>
            LET D == {id} \cup Descendants(folders, id)
            IN  /\ \A t \in Range(todos') : t.folderId \notin D
                /\ \A f \in Range(folders') : f.id \notin D]_vars

\* C3 witness: a deleteFolder call returned after removing a folder, a
\* descendant of it and a todo.
C3_Witness ==
    last.op = "deleteFolder" /\ last.res = "ok" /\ last.nf >= 2 /\ last.nt >= 1

\* C4: within one deleteFolder call every todo removal precedes every folder
\* removal: after each step of the call no remaining todo has a folderId
\* naming a folder the call has already removed.
C4_TodosRemovedBeforeFolders ==
    [][\A id \in FolderIds \ {root} :
          (DeleteFolder(id) /\ last'.res = "ok") =>
            LET steps == DeleteSteps(folders, todos, folderIdsToDelete(folders, id).ids)
            IN  /\ steps[Len(steps)] = [folders |-> folders', todos |-> todos']
                /\ \A k \in 1..Len(steps) :
                      \A t \in Range(steps[k].todos) :
                        t.folderId \notin (Ids(folders) \ Ids(steps[k].folders))]_vars

\* C4 witness: a deleteFolder call that had a todo to remove and removed a
\* folder after it.
C4_Witness ==
    last.op = "deleteFolder" /\ last.res = "ok" /\ last.nt >= 1 /\ last.nf >= 1
        /\ Len(folders) >= 2

\* C5: in every reachable state a folder with id 'root' exists and its
\* parentId is null; deleteFolder('root') and moveFolder('root', x) change
\* nothing, and no other operation removes or reparents root.
C5_RootPermanent ==
    /\ RootOK
    /\ [][/\ RootOK'
          /\ DeleteFolder(root) => UNCHANGED <<folders, todos>>
          /\ \A x \in FolderIds : MoveFolder(root, x) => UNCHANGED <<folders, todos>>]_vars

\* C5 witness: moveFolder('root', x) has been called on a store with other
\* folders and was rejected.
C5_Witness == last.res = "Cannot move root folder" /\ Len(folders) >= 2

\* C6: createFolder(name, parentId, color) fails with ValidationError and
\* inserts no folder when no folder with id parentId exists.
C6_CreateFolderValidatesParent ==
    [][\A parentId \in FolderIds :
          (CreateFolder(parentId) /\ ~Has(folders, parentId)) =>
            /\ folders' = folders
            /\ last'.res = "ValidationError"]_vars

\* ------------------------------------------------------ windowed list claims

\* The analytically visible range [floor(S/H), min(N-1, floor(S/H)+ceil(V/H)-1)]
Visible(n, h, v, top) ==
    {i \in 0..(n - 1) :
        /\ Floor(top, h) <= i
        /\ i <= Min(n - 1, Floor(top, h) + Ceil(v, h) - 1)}

\* C7: for any N, H, V and scroll offset S, the index range TodoList renders
\* after handling a scroll event contains every index of the analytically
\* visible range.
C7_WindowContainsVisible ==
    listLast = "scroll" =>
        Visible(todoCount, itemHeight, containerHeight, scrollTop) \subseteq Rendered

\* C7 witness: a scroll event was handled on a virtualized list, away from
\* the top, and only a part of the list is rendered.
C7_Witness ==
    /\ listLast = "scroll" /\ enableVirtualization
    /\ todoCount >= VirtualizationThreshold
    /\ scrollTop > 0
    /\ Visible(todoCount, itemHeight, containerHeight, scrollTop) # {}
    /\ 0 \notin Rendered /\ (todoCount - 1) \notin Rendered

\* C8: when the record count changes while the list is scrolled to an
\* offset S > 0, the window rendered once the effects have run contains the
\* visible range for offset S and the new count.
C8_WindowFollowsCountChange ==
    (listLast = "effect" /\ scrollTop > 0) =>
        Visible(todoCount, itemHeight, containerHeight, scrollTop) \subseteq Rendered

\* ---------------------------------------------------------- useTodos claims

\* The todos of the current render of the hook
HookData == HookTodos(store, hookOptions)

\* C9: filterTodos({status:'active'}) and filterTodos({status:'completed'})
\* have no todo in common and their union is the full set of todos in the
\* store.
C9_StatusPartitionsStore ==
    LET active == Range(filterTodos(HookData, [NoFilter EXCEPT !.status = "active"]))
        completed == Range(filterTodos(HookData, [NoFilter EXCEPT !.status = "completed"]))
    IN  /\ active \cap completed = {}
        /\ active \cup completed = Range(store)

\* C10: getTodoStats, getTagStats and getPriorityStats depend only on the
\* store contents: they return the same values whatever FilterOptions or
\* limit the hook was given.
C10_StatsIgnoreHookOptions ==
    \A options \in OptionChoices :
        LET other == HookTodos(store, options)
        IN  /\ getTodoStats(HookData, now) = getTodoStats(other, now)
            /\ getTagStats(HookData) = getTagStats(other)
            /\ getPriorityStats(HookData) = getPriorityStats(other)

\* C11: for every collection state getTodoStats returns total = completed +
\* active and completionRate = completed / total * 100 within 0..100, and on
\* an empty collection every field is 0.
C11_StatsConsistent ==
    LET stats == getTodoStats(HookData, now)
        rate == stats.completionRate
    IN  /\ stats.total = stats.completed + stats.active
        /\ rate.den > 0
        /\ 0 <= rate.num /\ rate.num <= 100 * rate.den
        /\ stats.total > 0 => rate.num * stats.total = stats.completed * 100 * rate.den
        /\ store = <<>> =>
              /\ stats.total = 0 /\ stats.completed = 0 /\ stats.active = 0
              /\ rate.num = 0
              /\ stats.todayAdded = 0 /\ stats.overdueCount = 0

\* C11 witness: the statistics of a list holding one completed and one active
\* todo (completion rate 100 / 2).
C11_Witness ==
    LET stats == getTodoStats(HookData, now)
    IN  stats.completed >= 1 /\ stats.active >= 1 /\ stats.completionRate.num = 100

\* C12: for every todo in the store, toggleTodo(id) called twice in
\* succession leaves its completed flag equal to its value before the first
\* call (and the first call alone changes it).
C12_ToggleTwiceRestores ==
    \A id \in Ids(store), t2 \in now..MaxTime :
        LET once == toggleTodo(store, id, now).store
            twice == toggleTodo(once, id, t2).store
        IN  /\ FindOne(once, id).completed # FindOne(store, id).completed
            /\ FindOne(twice, id).completed = FindOne(store, id).completed

\* C12 witness: toggleTodo has returned true on a store of two todos.
C12_Witness == hookLast = "toggleTodo" /\ Len(store) >= 2

\* C13: every successful toggleTodo(id) leaves that todo's updatedAt strictly
\* greater than it was before the call (the clock never goes backwards).
C13_ToggleAdvancesUpdatedAt ==
    [][\A id \in TodoIds :
          (ToggleTodo(id) /\ Has(store, id)) =>
            FindOne(store', id).updatedAt > FindOne(store, id).updatedAt]_vars

\* C14: in every reachable state every todo satisfies updatedAt >= createdAt.
C14_UpdatedNotBeforeCreated ==
    \A t \in Range(store) : t.updatedAt >= t.createdAt

\* C16: no sequence of operations leaves in the store a todo whose trimmed
\* title has fewer than 2 or more than 100 characters.
C16_TitleLengthValid ==
    \A t \in Range(store) : Len(trim(t.title)) >= 2 /\ Len(trim(t.title)) <= 100

\* C19: toggleTodo, updateTodo and deleteTodo called with an id that matches
\* no todo report no change, raise no error and leave the store unchanged.
C19_NoMatchIsNoOp ==
    [][\A id \in CallIds \ Ids(store) :
            /\ ToggleTodo(id) => (store' = store /\ hookLast' = "toggleTodo: false")
            /\ DeleteTodo(id) => (store' = store /\ hookLast' = "deleteTodo: false")
            /\ \A update \in Patches :
                  UpdateTodo(id, update) =>
                    (store' = store /\ hookLast' = "updateTodo: false")]_vars

\* C19 witness: updateTodo has returned false on a store that holds a todo.
C19_Witness == hookLast = "updateTodo: false" /\ Len(store) >= 1

\* C20: clearCompleted removes exactly the completed todos and leaves every
\* active todo unchanged; markAllCompleted (markAllActive) changes only the
\* completed flag and updatedAt of the todos that were active (completed),
\* and afterwards no active (completed) todo remains.
C20_BulkFrame ==
    [][/\ ClearCompleted =>
            /\ Range(store') = {t \in Range(store) : ~t.completed}
            /\ Len(store') = Cardinality(Range(store'))
       /\ \A from \in BOOLEAN :
            (IF from THEN MarkAllActive ELSE MarkAllCompleted) =>
                /\ Len(store') = Len(store)
                /\ \A i \in 1..Len(store) :
                      /\ store[i].completed # from => store'[i] = store[i]
                      /\ \A f \in DOMAIN store[i] \ {"completed", "updatedAt"} :
                            store'[i][f] = store[i][f]
                      /\ store'[i].completed = ~from]_vars

\* C20 witness: markAllCompleted has run on a store holding a todo it
\* changed and a todo that was already completed.
C20_Witness ==
    /\ hookLast = "markAllCompleted"
    /\ \E t \in Range(store) : t.updatedAt = now
    /\ \E t \in Range(store) : t.updatedAt < now

\* FilterOptions specifying one predicate each
SingleFilters ==
    { [NoFilter EXCEPT !.status = "active"],
      [NoFilter EXCEPT !.status = "completed"],
      [NoFilter EXCEPT !.priority = "high"],
      [NoFilter EXCEPT !.tags = << <<"a">>, <<"b">> >>],
      [NoFilter EXCEPT !.searchTerm = <<"A", "B">>],
      [NoFilter EXCEPT !.dateRange = [has |-> TRUE, start |-> 1, end |-> 1]] }

\* The FilterOptions specifying the predicates of f and of g (Both(f, g) =
\* Both(g, f) when they specify different fields)
Both(f, g) ==
    [status |-> IF f.status # "" THEN f.status ELSE g.status,
     priority |-> IF f.priority # "" THEN f.priority ELSE g.priority,
     searchTerm |-> IF f.searchTerm # <<>> THEN f.searchTerm ELSE g.searchTerm,
     tags |-> IF f.tags # <<>> THEN f.tags ELSE g.tags,
     dateRange |-> IF f.dateRange.has THEN f.dateRange ELSE g.dateRange]

\* A todo satisfies every predicate f specifies: status, exact priority, any
\* of the tags, case-insensitive search over title, description and tags,
\* inclusive createdAt range.
Satisfies(todo, f) ==
    /\ f.status = "active" => ~todo.completed
    /\ f.status = "completed" => todo.completed
    /\ f.priority # "" => todo.priority = f.priority
    /\ f.tags # <<>> => \E i \in 1..Len(f.tags), j \in 1..Len(todo.tags) : f.tags[i] = todo.tags[j]
    /\ f.searchTerm # <<>> =>
          \E text \in {todo.title, todo.description} \cup Range(todo.tags) :
              \E i \in 0..(Len(text) - Len(f.searchTerm)) :
                  \A k \in 1..Len(f.searchTerm) :
                      toLowerCase(<<text[i + k]>>) = toLowerCase(<<f.searchTerm[k]>>)
    /\ f.dateRange.has =>
          (f.dateRange.start <= todo.createdAt /\ todo.createdAt <= f.dateRange.end)

KeyLess(a, b, sortField) ==
    CASE sortField = "priority" ->
            LET rank == [p \in {"low", "medium", "high"} |->
                            IF p = "high" THEN 3 ELSE IF p = "medium" THEN 2 ELSE 1]
            IN  rank[a.priority] < rank[b.priority]
      [] sortField = "title" -> StringLess(toLowerCase(a.title), toLowerCase(b.title))
      [] OTHER -> a.createdAt < b.createdAt

\* C17: sortTodos(list, field, direction) returns a permutation of list
\* ordered by the chosen key, non-decreasing for 'asc' and non-increasing
\* for 'desc'.
C17_SortIsOrderedPermutation ==
    sortCall.called =>
        LET list == sortCall.todosToSort
            result == sortCall.result
        IN  /\ Len(result) = Len(list)
            /\ \A x \in Range(list) \cup Range(result) :
                  Cardinality({i \in 1..Len(list) : list[i] = x})
                    = Cardinality({i \in 1..Len(result) : result[i] = x})
            /\ \A i \in 1..Len(result), j \in 1..Len(result) :
                  i < j =>
                    IF sortCall.direction = "asc"
                    THEN ~KeyLess(result[j], result[i], sortCall.sortField)
                    ELSE ~KeyLess(result[i], result[j], sortCall.sortField)

\* C17 witness: a list of three todos was sorted by title, and the result
\* differs from the list and from its order under case-sensitive comparison.
C17_Witness ==
    /\ sortCall.called /\ sortCall.sortField = "title"
    /\ Len(sortCall.todosToSort) = 3
    /\ sortCall.result # sortCall.todosToSort
    /\ \E i \in 1..2 : StringLess(sortCall.result[i + 1].title, sortCall.result[i].title)

\* C21: deleteFolder(id) leaves unchanged every folder that is neither id nor
\* a descendant of id, and every todo whose folderId is outside that set.
C21_DeleteFolderFrame ==
    [][\A id \in FolderIds :
          DeleteFolder(id) =>
            LET D == {id} \cup Descendants(folders, id)
            IN  /\ SelectSeq(folders', LAMBDA f : f.id \notin D)
                      = SelectSeq(folders, LAMBDA f : f.id \notin D)
                /\ SelectSeq(todos', LAMBDA t : t.folderId \notin D)
                      = SelectSeq(todos, LAMBDA t : t.folderId \notin D)]_vars

\* C21 witness: a deleteFolder call removed a folder while another folder
\* beside root and a todo outside the deleted subtree were in the store.
C21_Witness ==
    /\ last.op = "deleteFolder" /\ last.res = "ok" /\ last.nf >= 1
    /\ Len(todos) >= 1
    /\ \E f \in Range(folders) : f.id # root

\* C22: on every reachable folder state the upward ancestry check of
\* moveFolder (walking parent pointers from the target) and the downward
\* descendant search of the drop handler (enumerating child folders from the
\* dragged folder) give the same verdict for every pair of a dragged folder
\* and a target folder.
C22_AncestryChecksAgree ==
    \A dragged \in Ids(folders), target \in Ids(folders) :
        isDescendant(folders, target, dragged, {})
            = handleDropIsDescendant(folders, dragged, target, {})

\* C23: in every state reachable through the folder UI (select a folder, add
\* a todo, drop a todo on a folder, create, move or delete a folder), every
\* todo's folderId names a folder that exists in the store.
C23_TodoFolderExists == \A t \in Range(todos) : Has(folders, t.folderId)

\* C24: in every reachable state every non-root folder's parentId names a
\* folder that exists in the store and its parent chain ends at root, for any
\* sequence of createFolder, moveFolder and deleteFolder calls, including
\* calls whose parent argument is an id not present in the store.
C24_ParentChainsEndAtRoot ==
    \A f \in Range(folders) :
        f.id # root => (Has(folders, f.parentId) /\ root \in Ancestors(folders, f.id))

\* C28: on every reachable folder state deleteFolder's recursive child
\* enumeration and moveFolder's recursive ancestry walk terminate, whatever
\* folder ids they are called with.
C28_RecursionsTerminate ==
    /\ \A id \in FolderIds : getAllChildFolders(folders, id, {}).ok
    /\ \A newParentId \in FolderIds, folderId \in FolderIds :
          isDescendant(folders, newParentId, folderId, {}) # "overflow"

\* C27: whenever TodoList is virtualized over a non-empty list of N todos,
\* the rendered slice is non-empty and every rendered index lies in 0..N-1,
\* in every render, including the render that immediately follows a shrink
\* of the list while the view is scrolled far down.
C27_VirtualSliceNonEmpty ==
    (enableVirtualization /\ todoCount >= VirtualizationThreshold /\ todoCount > 0) =>
        /\ Rendered # {}
        /\ Rendered \subseteq 0..(todoCount - 1)

\* C29: in TodoList, whenever selection mode is off the selected-id set is
\* empty, for any sequence of Select, item click, Select All, bulk action and
\* Cancel events.
C29_NoSelectionOutsideMode == ~isSelectionMode => selectedIds = {}

\* C29 witness: Cancel was clicked on a selection of two or more todos and
\* selection mode is off.
C29_Witness ==
    selectionLast.op = "clearSelection" /\ selectionLast.had >= 2 /\ ~isSelectionMode

\* C30: in TodoList the selected-id set is always a subset of the ids of the
\* todos currently passed to the list, for any interleaving of selection
\* events with changes of the todos prop.
C30_SelectionWithinTodos == selectedIds \subseteq listTodoIds

\* C25: a status, priority, tag or date-range filter change made while a
\* debounced search update is pending is still present in the filters after
\* the pending search update fires.
C25_PendingSearchKeepsFilterChanges ==
    [][SearchTimeout =>
          \A field \in changedWhilePending : filters'[field] = filters[field]]_vars

\* C26: after Clear All Filters / Reset is clicked, the filters stay empty
\* until the next user input, even when a debounced search update was pending
\* at the moment of the click.
C26_ResetStaysEmpty ==
    [][(SearchTimeout /\ filterLast = "handleReset") => filters' = NoFilter]_vars

====
